---- MODULE Spec2Model ----
(***************************************************************************)
(* The rate-limited concurrent mapping engine `amap` of aixiv               *)
(* (src/aixiv/article.py).  One runner task per article polls a moving-    *)
(* window rate limiter, then invokes `func` under `wait_for(.., timeout)`; *)
(* `gather` joins the runners and `run` returns the list or raises.        *)
(*                                                                         *)
(* Time is counted in ticks of INTERVAL (0.1 s).  The event loop is        *)
(* idealised in the usual way: the engine's own steps take no time, so     *)
(* the clock advances only while every task waits on a timer (Tick) or     *)
(* while a synchronous `func` blocks the loop (Blocked inside Admit).      *)
(* Clocks are kept as ages and countdowns, which is what every comparison  *)
(* of the code (`atime >= now - expiry`, the sleep, the wait_for deadline) *)
(* depends on; an age past its last comparison point is capped.            *)
(*                                                                         *)
(* An article is the sequence of titles <<own, origin, origin.origin ..>>: *)
(* Head is the article's own fields, Tail is its `origin` (<<>> = None).   *)
(*                                                                         *)
(* `search` of src/aixiv/search.py is modelled beside it: the texts of a   *)
(* record are sequences of characters, normalised when the Article is      *)
(* built and rewritten by the LaTeX-to-text conversion afterwards.         *)
(***************************************************************************)
EXTENDS Integers, Sequences, FiniteSets, TLC

\* ---------------------------------------------------------------- bounds
MaxItems == 2
MaxAmount == 2
MaxTimeout == 2
MaxDur == 2
MaxPolls == 2
MaxWait == 2

\* ------------------------------------------------------ program constants
\* INTERVAL = 0.1 (seconds): the unit of time of the model.
INTERVAL == 1
\* One second, the granularity of a "<n>/second" limit, in INTERVALs.
SECOND == 10
\* UNLIMITED = parse("1000/second")
UNLIMITED_AMOUNT == 1000

\* The title func gives the article it returns: the input's, marked, or
\* the input's as it is (a func that returns its argument unchanged).
Mapped(title) == IF title = "a" THEN "A" ELSE title

\* Articles offered as input: with and without an origin of their own.
ItemPool == {<<"a">>, <<"b", "a">>}

Min(a, b) == IF a < b THEN a ELSE b
Max(a, b) == IF a > b THEN a ELSE b

VARIABLES
    articles,    \* the input sequence
    limit,       \* the `limit` argument: [form, amount, multiples]
    timeout,     \* the `timeout` argument, in ticks
    batch,       \* "new" | "running" | "returned" | "raised"
    rate_limit,  \* main's rate_limit: [amount, expiry]
    events,      \* MemoryStorage window: ages of the entries, newest first
    pc,          \* per runner: "poll" | "await" | "done" | "failed" | "cancelled"
    sleepLeft,   \* per runner: ticks left of sleep(INTERVAL)
    waited,      \* per runner: ticks spent before admission (capped)
    elapsed,     \* per runner: ticks since wait_for started (capped)
    plan,        \* per runner: what func does on this article
    outcome,     \* per runner: "none" | "value" | "deadline" | "fn_timeout" | "error" | "cancelled"
    result,      \* per runner: the article the runner returned (<<>> if none)
    polls,       \* per runner: number of rate_limiter.hit calls (saturating)
    calls,       \* per runner: number of func invocations
    invoked,     \* ages of the func invocations, newest first
    finished,    \* runner indices in completion order
    output,      \* the list amap returned (<<>> until it returns)
    round,       \* the number of this call to amap in the caller's sequence
    detex,       \* search: the `detex` argument
    results,     \* search: the records client.results(search) yields
    found,       \* search: the `articles` list of search
    stage        \* search: "idle" | "queried" | "built" | "returned"

vars == <<articles, limit, timeout, batch, rate_limit, events, pc, sleepLeft,
          waited, elapsed, plan, outcome, result, polls, calls, invoked,
          finished, output, round, detex, results, found, stage>>

\* What lies outside the call to amap in progress: the caller's count of
\* calls and the state of search.
outer == <<round, detex, results, found, stage>>

Workers == 1..Len(articles)

\* ----------------------------------------------------------- the inputs
\* None, a string limits.parse rejects ("abc", "-1/second", "1/-1 second"),
\* "<amount>/second" and "<amount>/0 second".
Limits ==
    {[form |-> "none", amount |-> 0, multiples |-> 1],
     [form |-> "malformed", amount |-> 0, multiples |-> 1],
     [form |-> "rate", amount |-> 1, multiples |-> 0]}
    \cup [form : {"rate"}, amount : 0..MaxAmount, multiples : {1}]

ArticleSeqs == UNION {[1..n -> ItemPool] : n \in 0..MaxItems}

NoPlan == [kind |-> "none", out |-> "none", dur |-> 0]

\* What func does on one article: synchronous or awaitable, how long it
\* takes, and how it ends (a value, an error, a TimeoutError of its own).
\* A synchronous func returns or raises after dur ticks; an awaitable may
\* also never complete (dur = Hang).
Hang == MaxDur + 1

Plans ==
    [kind : {"sync"}, out : {"value", "error", "timeout_error"}, dur : 0..MaxDur]
    \cup [kind : {"async"}, out : {"value", "error", "timeout_error"},
          dur : 0..Hang]

NoRate == [amount |-> 0, expiry |-> 0]

\* ------------------------------------------------------------- articles
\* A replace that leaves the origin as it was.
replace_Kept(article, origin) == article

\* dataclasses.replace(article, origin=origin): the same own fields, a new origin.
replace(article, origin) == <<Head(article)>> \o origin

\* What func returns for `article`: a modified copy, keeping the origin the
\* input had (func knows nothing of the engine's back-reference).
func(article, p) == <<Mapped(Head(article))>> \o Tail(article)

\* afunc without the back-reference: func's value as it is.
afunc_NoOrigin(article, p) == func(article, p)

\* The origin set on the awaited branch only.
afunc_SyncBare(article, p) ==
    IF p.kind = "sync" THEN func(article, p) ELSE replace(func(article, p), article)

\* afunc: the value of func (awaited or not) with origin set to the input.
afunc(article, p) == replace(func(article, p), article)

\* A fallback tagged like a result.
Fallback_Tagged(article) == replace(article, article)

\* runner's `except TimeoutError: return article`.
Fallback(article) == article

\* ------------------------------------------------------ the rate limiter
\* limits.parse("<amount>/<multiples> second"): a string the grammar does
\* not match raises ValueError; multiples absent or 0 count as 1
\* (`multiples and int(multiples) or None`); the amount is not validated.
parse(l) ==
    IF l.form = "malformed"
    THEN [ok |-> FALSE, amount |-> 0, expiry |-> 0]
    ELSE [ok |-> TRUE, amount |-> l.amount,
          expiry |-> SECOND * (IF l.multiples = 0 THEN 1 ELSE l.multiples)]

\* A default of one call per second.
UNLIMITED_One == [ok |-> TRUE, amount |-> 1, expiry |-> SECOND]

UNLIMITED == [ok |-> TRUE, amount |-> UNLIMITED_AMOUNT, expiry |-> SECOND]

\* main's choice of rate_limit.
RateLimitOf(l) == IF l.form = "none" THEN UNLIMITED ELSE parse(l)

\* events[key][k] of the storage, 0-based as in the code; -1 stands for the
\* IndexError branch (entry = None).
Entry(ev, k) == IF k + 1 \in 1..Len(ev) THEN ev[k + 1] ELSE -1

\* The window checked one entry too far.
acquire_entry_OffByOne(ev, lim, expiry, amount) ==
    IF amount > lim
    THEN FALSE
    ELSE LET entry == Entry(ev, lim - amount + 1)
         IN  ~(entry # -1 /\ entry <= expiry)

\* MemoryStorage.acquire_entry(key, limit, expiry, amount) as called by
\* MovingWindowRateLimiter.hit: refused when amount > limit, or when the
\* limit-th newest entry is still inside the window
\* (entry.atime >= now - expiry, i.e. its age <= expiry).
acquire_entry(ev, lim, expiry, amount) ==
    IF amount > lim
    THEN FALSE
    ELSE LET entry == Entry(ev, lim - amount)
         IN  ~(entry # -1 /\ entry <= expiry)

\* An entry inserted on every poll.
Recorded_Always(ev, granted) == <<0>> \o ev

\* acquire_entry inserts the new entry (age 0, newest first) only when it
\* grants.
Recorded(ev, granted) == IF granted THEN <<0>> \o ev ELSE ev

\* rate_limiter.hit(rate_limit): cost 1.
hit(ev, rl) == acquire_entry(ev, rl.amount, rl.expiry, 1)

\* A loop left after its first poll whatever the answer.
LoopExit_Always(granted) == TRUE

\* `while not await rate_limiter.hit(rate_limit)`: the loop is left when
\* the hit is granted.
LoopExit(granted) == granted

\* ---------------------------------------------------------------- clocks
AgeCap == rate_limit.expiry + 1
ElapsedCap == Max(MaxDur, MaxTimeout)

\* The ages after d more ticks.
Aged(ev, d) == [k \in DOMAIN ev |-> Min(ev[k] + d, AgeCap)]

\* A deadline counted from the start of the runner.
TimeoutDue_FromStart(i) == waited[i] + elapsed[i] >= timeout

\* No deadline at all: `await afunc(article)`.
TimeoutDue_Never(i) == FALSE

\* wait_for's deadline, counted from the start of wait_for.
TimeoutDue(i) == elapsed[i] >= timeout

\* The awaited func has completed, and the deadline has not passed first:
\* of two timers that are both due the loop runs the earlier one first, and
\* the deadline's when they are due at the same time.
FuncDue(i) ==
    /\ plan[i].dur # Hang
    /\ elapsed[i] >= plan[i].dur
    /\ ~(TimeoutDue(i) /\ timeout <= plan[i].dur)

\* Runner i has a step to take now.
Urgent(i) ==
    \/ pc[i] = "poll" /\ sleepLeft[i] = 0
    \/ pc[i] = "await" /\ (FuncDue(i) \/ TimeoutDue(i))

\* ------------------------------------------------------------------ Init
\* The state of a call before main runs.
Fresh ==
    /\ batch = "new"
    /\ rate_limit = NoRate
    /\ events = <<>>
    /\ pc = [i \in Workers |-> "new"]
    /\ sleepLeft = [i \in Workers |-> 0]
    /\ waited = [i \in Workers |-> 0]
    /\ elapsed = [i \in Workers |-> 0]
    /\ plan = [i \in Workers |-> NoPlan]
    /\ outcome = [i \in Workers |-> "none"]
    /\ result = [i \in Workers |-> <<>>]
    /\ polls = [i \in Workers |-> 0]
    /\ calls = [i \in Workers |-> 0]
    /\ invoked = <<>>
    /\ finished = <<>>
    /\ output = <<>>

\* The first call of the caller's sequence; search is not in progress.
Outside ==
    /\ round = 1
    /\ detex = FALSE
    /\ results = <<>>
    /\ found = <<>>
    /\ stage = "idle"

Init ==
    /\ articles \in ArticleSeqs
    /\ limit \in Limits
    /\ timeout \in 1..MaxTimeout
    /\ Fresh
    /\ Outside

inputs == <<articles, limit, timeout>>

\* --------------------------------------------------------------- actions
\* A runner takes its steps for as long as its task is alive, whatever main
\* is doing: the actions of a runner are guarded by its own position.

\* A storage shared by all the calls of the process.
MemoryStorage_Shared == events

\* MemoryStorage(): a new storage, with no entry under any key.
MemoryStorage == <<>>

\* run(main()): a fresh storage, the limit parsed, one runner per article
\* handed to gather.  A limit that does not parse raises out of main.
Start ==
    /\ batch = "new"
    /\ LET rl == RateLimitOf(limit)
       IN  IF rl.ok
           THEN /\ batch' = "running"
                /\ rate_limit' = [amount |-> rl.amount, expiry |-> rl.expiry]
                /\ pc' = [i \in Workers |-> "poll"]
           ELSE /\ batch' = "raised"
                /\ UNCHANGED <<rate_limit, pc>>
    /\ events' = MemoryStorage
    /\ UNCHANGED <<outer, inputs, sleepLeft, waited, elapsed, plan, outcome, result,
                   polls, calls, invoked, finished, output>>

\* A poll of the admission loop that does not leave it: sleep(INTERVAL).
Denied(i) ==
    /\ pc[i] = "poll" /\ sleepLeft[i] = 0
    /\ LET granted == hit(events, rate_limit)
       IN  /\ ~LoopExit(granted)
           /\ events' = Recorded(events, granted)
    /\ polls' = [polls EXCEPT ![i] = Min(@ + 1, MaxPolls)]
    /\ sleepLeft' = [sleepLeft EXCEPT ![i] = INTERVAL]
    /\ UNCHANGED <<outer, inputs, batch, rate_limit, pc, waited, elapsed, plan,
                   outcome, result, calls, invoked, finished, output>>

\* The clocks after the loop was blocked for d ticks by runner i's
\* synchronous func.
Blocked(i, d, ev) ==
    /\ events' = Aged(ev, d)
    /\ invoked' = Aged(<<0>> \o invoked, d)
    /\ sleepLeft' = [j \in Workers |-> Max(sleepLeft[j] - d, 0)]
    /\ waited' = [j \in Workers |->
                    IF pc[j] = "poll" /\ j # i
                    THEN Min(waited[j] + d, MaxWait) ELSE waited[j]]
    /\ elapsed' = [j \in Workers |->
                    IF pc[j] = "await"
                    THEN Min(elapsed[j] + d, ElapsedCap) ELSE elapsed[j]]

\* The poll that leaves the loop, and the start of wait_for(afunc(article)):
\* func is called.  A synchronous func runs to its end here, blocking the
\* loop for p.dur ticks, and is never timed out; an awaitable is awaited.
Admit(i, p) ==
    /\ pc[i] = "poll" /\ sleepLeft[i] = 0
    /\ polls' = [polls EXCEPT ![i] = Min(@ + 1, MaxPolls)]
    /\ calls' = [calls EXCEPT ![i] = @ + 1]
    /\ plan' = [plan EXCEPT ![i] = p]
    /\ LET granted == hit(events, rate_limit)
           ev == Recorded(events, granted)
       IN  /\ LoopExit(granted)
           /\ IF p.kind = "sync"
              THEN /\ Blocked(i, p.dur, ev)
                   /\ pc' = [pc EXCEPT ![i] =
                               IF p.out = "error" THEN "failed" ELSE "done"]
                   /\ outcome' = [outcome EXCEPT ![i] =
                               CASE p.out = "value" -> "value"
                                 [] p.out = "error" -> "error"
                                 [] OTHER -> "fn_timeout"]
                   /\ result' = [result EXCEPT ![i] =
                               CASE p.out = "value" -> afunc(articles[i], p)
                                 [] p.out = "error" -> <<>>
                                 [] OTHER -> Fallback(articles[i])]
                   /\ finished' = Append(finished, i)
              ELSE /\ events' = ev
                   /\ invoked' = <<0>> \o invoked
                   /\ pc' = [pc EXCEPT ![i] = "await"]
                   /\ elapsed' = [elapsed EXCEPT ![i] = 0]
                   /\ UNCHANGED <<sleepLeft, waited, outcome, result, finished>>
    /\ UNCHANGED <<outer, inputs, batch, rate_limit, output>>

\* The awaited func ends before the deadline: its value with origin set,
\* its error raised, or its own TimeoutError caught by the runner.
Complete(i) ==
    /\ pc[i] = "await" /\ FuncDue(i)
    /\ pc' = [pc EXCEPT ![i] = IF plan[i].out = "error" THEN "failed" ELSE "done"]
    /\ outcome' = [outcome EXCEPT ![i] =
                     CASE plan[i].out = "value" -> "value"
                       [] plan[i].out = "error" -> "error"
                       [] OTHER -> "fn_timeout"]
    /\ result' = [result EXCEPT ![i] =
                     CASE plan[i].out = "value" -> afunc(articles[i], plan[i])
                       [] plan[i].out = "error" -> <<>>
                       [] OTHER -> Fallback(articles[i])]
    /\ finished' = Append(finished, i)
    /\ UNCHANGED <<outer, inputs, batch, rate_limit, events, sleepLeft, waited,
                   elapsed, plan, polls, calls, invoked, output>>

\* wait_for's deadline passes first: the awaited func is cancelled, the
\* runner logs a warning and returns the article.
TimeoutFire(i) ==
    /\ pc[i] = "await" /\ TimeoutDue(i)
    /\ pc' = [pc EXCEPT ![i] = "done"]
    /\ outcome' = [outcome EXCEPT ![i] = "deadline"]
    /\ result' = [result EXCEPT ![i] = Fallback(articles[i])]
    /\ finished' = Append(finished, i)
    /\ UNCHANGED <<outer, inputs, batch, rate_limit, events, sleepLeft, waited,
                   elapsed, plan, polls, calls, invoked, output>>

\* The results in the order the runners finished.
Gathered_AsCompleted == [k \in 1..Len(finished) |-> result[finished[k]]]

\* list(await gather(*map(runner, articles))): the results in the order of
\* the runners handed to gather.
Gathered == [i \in Workers |-> result[i]]

\* A join that takes a raised runner for a finished one.
AllReturned_Settled == \A i \in Workers : pc[i] \in {"done", "failed"}

\* A join that waits for a first runner to return.
AllReturned_NonEmpty == Workers # {} /\ \A i \in Workers : pc[i] = "done"

\* gather is done with a list when every runner has returned.
AllReturned == \A i \in Workers : pc[i] = "done"

\* Every runner has returned: main returns the list and run hands it out.
BatchReturn ==
    /\ batch = "running"
    /\ AllReturned
    /\ batch' = "returned"
    /\ output' = Gathered
    /\ UNCHANGED <<outer, inputs, rate_limit, events, pc, sleepLeft, waited, elapsed,
                   plan, outcome, result, polls, calls, invoked, finished>>

\* A shutdown that cancels no task.
Pending_None(i) == FALSE

\* run's shutdown (_cancel_all_tasks): the tasks that are not done, which
\* are the runners still polling or awaiting.
Pending(i) == pc[i] \in {"poll", "await"}

\* A runner raised: gather passes the exception to main, main raises, and
\* run cancels the runners still pending before it raises to the caller.
\* The runner tasks are all queued before the first of them runs, so each
\* has taken its first step by the time main is resumed.
BatchRaise ==
    /\ batch = "running"
    /\ \E i \in Workers : pc[i] = "failed"
    /\ \A i \in Workers : polls[i] > 0
    /\ batch' = "raised"
    /\ pc' = [i \in Workers |-> IF Pending(i) THEN "cancelled" ELSE pc[i]]
    /\ outcome' = [i \in Workers |->
                      IF Pending(i) THEN "cancelled" ELSE outcome[i]]
    /\ UNCHANGED <<outer, inputs, rate_limit, events, sleepLeft, waited, elapsed,
                   plan, result, polls, calls, invoked, finished, output>>

\* One INTERVAL passes while every task waits on a timer.
Tick ==
    /\ batch = "running"
    /\ \A i \in Workers : ~Urgent(i)
    /\ \E i \in Workers : pc[i] \in {"poll", "await"}
    /\ \A i \in Workers : pc[i] # "failed"
    /\ events' = Aged(events, 1)
    /\ invoked' = Aged(invoked, 1)
    /\ sleepLeft' = [i \in Workers |-> Max(sleepLeft[i] - 1, 0)]
    /\ waited' = [i \in Workers |->
                    IF pc[i] = "poll" THEN Min(waited[i] + 1, MaxWait) ELSE waited[i]]
    /\ elapsed' = [i \in Workers |->
                    IF pc[i] = "await"
                    THEN Min(elapsed[i] + 1, ElapsedCap) ELSE elapsed[i]]
    /\ UNCHANGED <<outer, inputs, batch, rate_limit, pc, plan, outcome, result,
                   polls, calls, finished, output>>

Next ==
    \/ Start
    \/ \E i \in Workers : Denied(i)
    \/ \E i \in Workers : \E p \in Plans : Admit(i, p)
    \/ \E i \in Workers : Complete(i)
    \/ \E i \in Workers : TimeoutFire(i)
    \/ BatchReturn
    \/ BatchRaise
    \/ Tick

Spec == Init /\ [][Next]_vars

\* The loop runs every callback that is due and the clock goes on: a step
\* that can be taken is taken.
SpecLive == Init /\ [][Next]_vars /\ WF_vars(Next)

\* Batches that fill a window of more than one slot: RateItems equal
\* articles under "<amount>/second", 1 <= amount <= MaxAmount.
RateItems == 3

InitRate ==
    /\ articles = [i \in 1..RateItems |-> <<"a">>]
    /\ limit \in [form : {"rate"}, amount : 1..MaxAmount, multiples : {1}]
    /\ timeout = 1
    /\ Fresh
    /\ Outside

SpecRate == InitRate /\ [][Next]_vars

\* The first pass of the event loop over a large batch with limit=None:
\* gather starts the runners in the order of the articles, and each runs,
\* without the clock moving, up to its first suspension (the wait on its
\* awaitable, or the sleep after a refused poll).
BulkItems == 1001

BulkPlan == [kind |-> "async", out |-> "value", dur |-> 1]

InitBulk ==
    /\ articles \in {[i \in 1..n |-> <<"a">>] : n \in {BulkItems - 1, BulkItems}}
    /\ limit = [form |-> "none", amount |-> 0, multiples |-> 1]
    /\ timeout = MaxTimeout
    /\ Fresh
    /\ Outside

\* Runner i is the next to take its first step.
FirstInLine(i) == polls[i] = 0 /\ (IF i = 1 THEN TRUE ELSE polls[i - 1] > 0)

NextBulk ==
    \/ Start
    \/ \E i \in Workers : FirstInLine(i) /\ Denied(i)
    \/ \E i \in Workers : FirstInLine(i) /\ Admit(i, BulkPlan)

SpecBulk == InitBulk /\ [][NextBulk]_vars

\* ------------------------------------------------- a sequence of calls
\* The call has ended.
Terminated == batch \in {"returned", "raised"}

\* The caller calls amap again, with the same limit and timeout: on the same
\* articles, or on the list the call before returned.  main's locals of the
\* call before are gone; the storage it created stays as it was left until
\* main creates its own.
MaxCalls == 3

\* Articles as search returns them: without an origin.
FreshPool == {<<"a">>, <<"b">>}

Again(items) ==
    /\ Terminated
    /\ round < MaxCalls
    /\ round' = round + 1
    /\ articles' = items
    /\ batch' = "new"
    /\ rate_limit' = NoRate
    /\ pc' = [i \in DOMAIN items |-> "new"]
    /\ sleepLeft' = [i \in DOMAIN items |-> 0]
    /\ waited' = [i \in DOMAIN items |-> 0]
    /\ elapsed' = [i \in DOMAIN items |-> 0]
    /\ plan' = [i \in DOMAIN items |-> NoPlan]
    /\ outcome' = [i \in DOMAIN items |-> "none"]
    /\ result' = [i \in DOMAIN items |-> <<>>]
    /\ polls' = [i \in DOMAIN items |-> 0]
    /\ calls' = [i \in DOMAIN items |-> 0]
    /\ invoked' = <<>>
    /\ finished' = <<>>
    /\ output' = <<>>
    /\ UNCHANGED <<limit, timeout, events, detex, results, found, stage>>

\* The lists the caller has at hand for the next call.
AtHand == {articles} \cup (IF batch = "returned" THEN {output} ELSE {})

InitCalls ==
    /\ articles \in UNION {[1..n -> FreshPool] : n \in 0..MaxItems}
    /\ limit \in Limits
    /\ timeout \in 1..MaxTimeout
    /\ Fresh
    /\ Outside

NextCalls ==
    \/ Next
    \/ \E items \in AtHand : Again(items)

SpecCalls == InitCalls /\ [][NextCalls]_vars

\* ---------------------------------------------------------------- search
\* search of src/aixiv/search.py.  A text is a sequence of characters:
\* "x" a letter, "sp" a space, "nl" a newline, "tilde" the LaTeX tie `~`
\* and "br" the LaTeX line break `\\` (one token for the two backslashes).
MaxText == 2
MaxFound == 1

Chars == {"x", "sp", "nl", "tilde", "br"}

Texts == UNION {[1..n -> Chars] : n \in 0..MaxText}

\* The characters \s of SEP_PATTERN matches.
IsSep(c) == c \in {"sp", "nl"}

\* text without its leading run of separators.
RECURSIVE SkipSeps(_)
SkipSeps(text) ==
    IF text # <<>> /\ IsSep(Head(text)) THEN SkipSeps(Tail(text)) ELSE text

\* SEP_PATTERN.sub(SEP_REPL, text): scanning from the left, each match of
\* \n+\s*|\n*\s+ (a whole run of separators, whichever alternative takes
\* it) is replaced by one space.
RECURSIVE SepSub(_)
SepSub(text) ==
    IF text = <<>> THEN <<>>
    ELSE IF IsSep(Head(text))
         THEN <<"sp">> \o SepSub(SkipSeps(text))
         ELSE <<Head(text)>> \o SepSub(Tail(text))

\* Article.__post_init__: title and summary with their separators
\* converted.
post_init(article) ==
    [title |-> SepSub(article.title), summary |-> SepSub(article.summary)]

\* Article.from_arxiv(result): the dataclass is built from the fields of the
\* result and __post_init__ runs at the end of __init__.
from_arxiv(res) == post_init([title |-> res.title, summary |-> res.summary])

\* DETEXER.latex_to_text (pylatexenc): the tie becomes a space and the line
\* break a newline; plain characters are kept.
latex_to_text(text) ==
    [k \in DOMAIN text |->
        CASE text[k] = "tilde" -> "sp"
          [] text[k] = "br" -> "nl"
          [] OTHER -> text[k]]

\* format_text: latex_to_text, or the text itself when the conversion
\* raises (it does not on these texts).
format_text(text_like) == latex_to_text(text_like)

\* The state of amap while search runs: no call in progress.
NoCall ==
    /\ articles = <<>>
    /\ limit = [form |-> "none", amount |-> 0, multiples |-> 1]
    /\ timeout = 1
    /\ round = 1
    /\ Fresh

amapVars == <<articles, limit, timeout, batch, rate_limit, events, pc,
              sleepLeft, waited, elapsed, plan, outcome, result, polls, calls,
              invoked, finished, output, round>>

\* search is called; the client will yield `results`.
InitSearch ==
    /\ detex \in BOOLEAN
    /\ results \in UNION {[1..n -> [title : Texts, summary : Texts]] :
                              n \in 0..MaxFound}
    /\ found = <<>>
    /\ stage = "idle"
    /\ NoCall

\* articles = list(map(Article.from_arxiv, client.results(search)))
Build ==
    /\ stage = "idle"
    /\ found' = [k \in DOMAIN results |-> from_arxiv(results[k])]
    /\ stage' = "built"
    /\ UNCHANGED <<amapVars, detex, results>>

\* if detex: title and summary of every article are assigned the converted
\* text (a plain attribute assignment: __post_init__ does not run again).
Detex ==
    /\ stage = "built"
    /\ detex
    /\ found' = [k \in DOMAIN found |->
                    [title |-> format_text(found[k].title),
                     summary |-> format_text(found[k].summary)]]
    /\ stage' = "detexed"
    /\ UNCHANGED <<amapVars, detex, results>>

\* return articles
Return ==
    /\ stage = (IF detex THEN "detexed" ELSE "built")
    /\ stage' = "returned"
    /\ UNCHANGED <<amapVars, detex, results, found>>

NextSearch ==
    \/ Build
    \/ Detex
    \/ Return

SpecSearch == InitSearch /\ [][NextSearch]_vars

\* ================================================================ claims
\* Entries of s inside the trailing window of the parsed limit.
InWindow(s) == Cardinality({k \in DOMAIN s : s[k] <= rate_limit.expiry})

\* Runner i had a poll refused: a poll that was not followed by a call.
DeniedEver(i) == polls[i] > calls[i]

\* result is `article` transformed by func with its origin set to `article`.
DerivedFrom(res, article) ==
    /\ res # <<>>
    /\ Head(res) = Mapped(Head(article))
    /\ Tail(res) = article

\* C1: a batch call that returns gives a list as long as the input whose
\* i-th entry is items[i] itself or func's value for items[i], whatever the
\* order in which the runners finished.
C1_OrderPreserved ==
    batch = "returned" =>
        /\ Len(output) = Len(articles)
        /\ \A i \in 1..Len(articles) :
              output[i] = articles[i] \/ DerivedFrom(output[i], articles[i])

C1_Witness ==
    /\ batch = "returned"
    /\ Len(articles) = 2
    /\ articles[1] # articles[2]
    /\ finished = <<2, 1>>
    /\ outcome[1] = "value"
    /\ outcome[2] = "deadline"

\* C2: at no time do more than `amount` admissions, nor more than `amount`
\* invocations of func, lie inside the trailing window of `expiry` ticks;
\* two runners polling at the same instant never share the last slot.
C2_RateBound ==
    /\ InWindow(events) <= rate_limit.amount
    /\ InWindow(invoked) <= rate_limit.amount

C2_Witness ==
    /\ rate_limit.amount = 2
    /\ Len(invoked) = 3
    /\ \E i \in Workers : DeniedEver(i) /\ calls[i] = 1

\* func's invocation for article i lasted longer than the timeout.
Overran(i) == calls[i] = 1 /\ pc[i] \in {"done", "failed"} /\ plan[i].dur > timeout

\* C3 as claimed: every item whose func invocation does not complete within
\* the timeout yields the original item, and a timeout never raises.
C3_Original ==
    /\ \A i \in Workers : Overran(i) => pc[i] = "done" /\ result[i] = articles[i]
    /\ batch = "returned" =>
          \A i \in Workers : Overran(i) => output[i] = articles[i]
    /\ batch = "raised" =>
          (~RateLimitOf(limit).ok \/ \E i \in Workers : outcome[i] = "error")

\* C3 amended: every item whose func returned an awaitable that is not done
\* when the timeout has passed yields the original item unchanged, the
\* other items keep their own results, and a timeout never raises; a
\* synchronous func is never timed out.
C3_TimeoutFallback ==
    /\ \A i \in Workers :
          (Overran(i) /\ plan[i].kind = "async") =>
              /\ pc[i] = "done"
              /\ outcome[i] = "deadline"
              /\ result[i] = articles[i]
    /\ \A i \in Workers :
          (Overran(i) /\ plan[i].kind = "sync") => outcome[i] # "deadline"
    /\ batch = "returned" =>
          \A i \in Workers :
              /\ outcome[i] = "deadline" => output[i] = articles[i]
              /\ outcome[i] = "value" => DerivedFrom(output[i], articles[i])
    /\ batch = "raised" =>
          (~RateLimitOf(limit).ok \/ \E i \in Workers : outcome[i] = "error")

C3_Witness ==
    /\ batch = "returned"
    /\ Len(articles) = 2
    /\ plan[1].kind = "async" /\ plan[1].dur > timeout /\ outcome[1] = "deadline"
    /\ outcome[2] = "value"
    /\ output[1] = articles[1]

\* C4: once func has raised an error on some item the call never returns a
\* list and does raise; a call ends either with a complete list in input
\* order or with an error and no list.
C4_ErrorPropagates ==
    /\ []((\E i \in Workers : outcome[i] = "error") =>
            (batch # "returned" /\ output = <<>>))
    /\ [](batch = "returned" =>
            /\ Len(output) = Len(articles)
            /\ \A i \in Workers :
                  /\ outcome[i] \in {"value", "deadline", "fn_timeout"}
                  /\ output[i] = result[i])
    /\ [](batch = "raised" => output = <<>>)
    /\ ((\E i \in Workers : outcome[i] = "error") ~> batch = "raised")

C4_Witness ==
    /\ batch = "raised"
    /\ Len(articles) = 2
    /\ outcome[1] = "value"
    /\ outcome[2] = "error"
    /\ output = <<>>

\* The quotas the claim calls invalid: a string that does not parse, a
\* count of 0, a period of 0 units.
InvalidQuota(l) ==
    \/ l.form = "malformed"
    \/ l.form = "rate" /\ (l.amount = 0 \/ l.multiples = 0)

\* C5 as claimed: an invalid quota makes the call raise before any item is
\* processed: no poll of the limiter, no invocation of func.
C5_InvalidQuotaFailsFast ==
    InvalidQuota(limit) =>
        /\ batch \in {"new", "raised"}
        /\ \A i \in Workers : polls[i] = 0 /\ calls[i] = 0


\* C6 as claimed, in the form a finite run refutes: under a valid quota
\* every runner has been admitted by the time the call ends.
C6_EveryWorkerAdmitted ==
    (Terminated /\ limit.form = "rate" /\ limit.amount > 0 /\ limit.multiples > 0) =>
        \A i \in Workers : calls[i] = 1

\* C6 amended: under a valid quota the call ends, returning or raising;
\* when it returns every runner was admitted and has returned, and when it
\* raises every runner has returned, raised or been cancelled by the raise
\* (a runner still waiting for admission then is never admitted).
C6_Terminates ==
    /\ ((batch = "new" /\ ~(limit.form = "rate" /\ limit.amount = 0))
            ~> Terminated)
    /\ [](batch = "returned" =>
            \A i \in Workers : calls[i] = 1 /\ pc[i] = "done")
    /\ []((batch = "raised" /\ RateLimitOf(limit).ok) =>
            \A i \in Workers :
                /\ pc[i] \in {"done", "failed", "cancelled"}
                /\ calls[i] = 0 => outcome[i] = "cancelled")

C6_Witness ==
    /\ batch = "returned"
    /\ Len(articles) = 2
    /\ rate_limit.amount = 1
    /\ \E i \in Workers : DeniedEver(i) /\ outcome[i] = "deadline"

\* Runner i polls the limiter in this step.
PollBy(i) ==
    /\ batch = "running" /\ pc[i] = "poll" /\ sleepLeft[i] = 0
    /\ (calls'[i] = calls[i] + 1 \/ sleepLeft'[i] = INTERVAL)

\* C7: a poll is granted iff fewer than `amount` recorded timestamps lie in
\* the trailing window; granted, it records exactly one new timestamp (the
\* newest); refused, it leaves the recorded timestamps as they were.
C7_AdmitContract ==
    [][\A i \in Workers : PollBy(i) =>
         /\ (calls'[i] = calls[i] + 1) <=> (InWindow(events) < rate_limit.amount)
         /\ (calls'[i] = calls[i] + 1) =>
                \E d \in 0..MaxDur : events' = Aged(<<0>> \o events, d)
         /\ (calls'[i] = calls[i]) => events' = events]_vars

C7_Witness ==
    /\ rate_limit.amount = 2
    /\ InWindow(events) = 2
    /\ Len(events) = 3
    /\ \E i \in Workers : DeniedEver(i) /\ calls[i] = 1

\* C8: the fallback by deadline happens only when the timeout has passed
\* since wait_for started, however long the runner waited for admission
\* before; an awaitable that is done before that gives func's value.
C8_TimeoutFromInvocation ==
    \A i \in Workers :
        /\ outcome[i] = "deadline" => elapsed[i] >= timeout
        /\ (pc[i] = "done" /\ plan[i].kind = "async" /\ plan[i].out = "value"
              /\ elapsed[i] < timeout) => outcome[i] = "value"

C8_Witness ==
    \E i \in Workers :
        /\ waited[i] >= timeout
        /\ timeout = 2
        /\ plan[i].kind = "async" /\ plan[i].dur = 1
        /\ outcome[i] = "value"

\* C9: a value of func comes back with its origin set to exactly the input
\* article; a fallback by deadline is the input article itself, its origin
\* the one the input had.
C9_Origin ==
    \A i \in Workers :
        /\ outcome[i] = "value" =>
              /\ Tail(result[i]) = articles[i]
              /\ Head(result[i]) = Mapped(Head(articles[i]))
        /\ outcome[i] = "deadline" =>
              /\ result[i] = articles[i]
              /\ Tail(result[i]) = Tail(articles[i])
        /\ batch = "returned" => output[i] = result[i]

C9_Witness ==
    /\ batch = "returned"
    /\ Len(articles) = 2
    /\ articles[1] = <<"b", "a">> /\ outcome[1] = "value"
    /\ articles[2] = <<"b", "a">> /\ outcome[2] = "deadline"

\* C10 as claimed: with limit=None no runner is ever refused, whatever the
\* size of the batch.
C10_NeverDenied ==
    limit.form = "none" => \A i \in Workers : ~DeniedEver(i)

\* C10 amended: with limit=None the quota is UNLIMITED = 1000 per second: a
\* poll is refused only after 1000 admissions of the call were recorded, so
\* no runner of a batch of at most 1000 articles is ever refused.
C10_UnlimitedUpTo1000 ==
    limit.form = "none" =>
        /\ \A i \in Workers : DeniedEver(i) => Len(events) >= UNLIMITED_AMOUNT
        /\ Len(articles) <= UNLIMITED_AMOUNT => \A i \in Workers : ~DeniedEver(i)

C10_Witness ==
    /\ limit.form = "none"
    /\ Len(articles) = UNLIMITED_AMOUNT
    /\ \A i \in Workers : polls[i] = 1 /\ calls[i] = 1

\* The runners of this call that were admitted.
Admitted == {i \in Workers : calls[i] = 1}

\* C11: every call starts with an empty window, whatever the calls before
\* it recorded: until a runner of the call has polled, the storage holds no
\* entry, and a runner is refused only when the call itself has admitted
\* as many runners as the limit allows; the bound counts one call's
\* admissions only.
C11_FreshLimiter ==
    /\ (batch = "running" /\ \A i \in Workers : polls[i] = 0) => events = <<>>
    /\ batch = "running" => Len(events) <= Cardinality(Admitted)
    /\ \A i \in Workers :
          (DeniedEver(i) /\ rate_limit.amount > 0) =>
              Cardinality(Admitted) >= rate_limit.amount

C11_Witness ==
    /\ round = 2
    /\ batch = "running"
    /\ rate_limit = [amount |-> 1, expiry |-> SECOND]
    /\ Len(articles) = 2
    /\ polls = <<1, 1>>
    /\ calls = <<1, 0>>
    /\ waited = <<0, 0>>

\* C12: a call on no articles, with a limit that parses, returns the empty
\* list: it does return, it never raises, and no admission is recorded and
\* func is never invoked on the way.
C12_EmptyInput ==
    /\ []((Len(articles) = 0 /\ RateLimitOf(limit).ok) =>
            /\ batch # "raised"
            /\ events = <<>>
            /\ invoked = <<>>
            /\ output = <<>>)
    /\ ((Len(articles) = 0 /\ RateLimitOf(limit).ok /\ batch = "new")
            ~> batch = "returned")

C12_Witness ==
    /\ batch = "returned"
    /\ Len(articles) = 0
    /\ limit.form = "rate"
    /\ output = <<>>
    /\ events = <<>>

\* The runner returned through its `except TimeoutError` branch.
FellBack(i) == outcome[i] \in {"deadline", "fn_timeout"}

\* C13: in a returned list the i-th entry equals the i-th input exactly
\* when runner i fell back to the input; a value of func never equals the
\* input, not even when func returns its argument unchanged, because its
\* origin is the input.
C13_EqualIffFallback ==
    batch = "returned" =>
        \A i \in Workers : (output[i] = articles[i]) <=> FellBack(i)

C13_Witness ==
    /\ batch = "returned"
    /\ Len(articles) = 2
    /\ articles[1] = <<"b", "a">>
    /\ outcome[1] = "value"
    /\ Head(output[1]) = Head(articles[1])
    /\ output[1] # articles[1]
    /\ outcome[2] = "deadline"
    /\ output[2] = articles[2]

\* C14: a synchronous func and an awaitable one that is done before the
\* deadline give the same result for the same value: the value with its
\* origin set to the input; the deadline never replaces the result of a
\* synchronous func, however long it ran.
C14_SyncAsyncUniform ==
    /\ \A i \in Workers :
          /\ plan[i].kind = "sync" => outcome[i] # "deadline"
          /\ (plan[i].kind = "sync" /\ plan[i].out = "value") =>
                 outcome[i] = "value"
          /\ outcome[i] = "value" => DerivedFrom(result[i], articles[i])
    /\ \A i, j \in Workers :
          (articles[i] = articles[j] /\ outcome[i] = "value" /\ outcome[j] = "value")
              => result[i] = result[j]

C14_Witness ==
    /\ Len(articles) = 2
    /\ articles[1] = articles[2]
    /\ plan[1].kind = "sync" /\ plan[1].dur > timeout
    /\ plan[2].kind = "async"
    /\ outcome[1] = "value" /\ outcome[2] = "value"
    /\ result[1] = result[2]

\* C15: once the call has raised, no runner of it is left polling or
\* awaiting (those that were are cancelled), and from then on no admission
\* is recorded and func is not invoked again.
C15_AbortAfterRaise ==
    /\ [](batch = "raised" => \A i \in Workers : ~Pending(i))
    /\ [][batch = "raised" =>
             /\ calls' = calls
             /\ polls' = polls
             /\ events' = events
             /\ invoked' = invoked]_vars

C15_Witness ==
    /\ batch = "raised"
    /\ Len(articles) = 2
    /\ outcome[1] = "error"
    /\ outcome[2] = "cancelled"
    /\ calls[2] = 1
    /\ pc[2] = "cancelled"

\* func raised on article i before the deadline of its invocation.
RaisedInTime(i) ==
    /\ calls[i] = 1
    /\ plan[i].out \in {"error", "timeout_error"}
    /\ outcome[i] \in {"error", "fn_timeout"}

\* C16 as claimed: the input is returned in place of a result only when the
\* deadline of the invocation has passed; an error func raises before the
\* deadline, a TimeoutError of its own included, makes the runner raise and
\* is never replaced by the fallback.
C16_OwnErrorsPropagate ==
    \A i \in Workers :
        /\ RaisedInTime(i) => (pc[i] = "failed" /\ result[i] = <<>>)
        /\ (pc[i] = "done" /\ result[i] = articles[i]) =>
              (outcome[i] = "deadline" /\ elapsed[i] >= timeout)

\* C17: func is invoked at most once per article and only by a runner that
\* was admitted; every invocation has exactly one recorded admission, which
\* stays recorded whatever the outcome (a deadline gives no slot back); a
\* runner that ended was admitted once, and when the call returns there
\* are as many admissions and invocations as articles.
C17_OncePerItem ==
    /\ \A i \in Workers :
          /\ calls[i] \in {0, 1}
          /\ calls[i] = 1 => pc[i] \notin {"new", "poll"}
          /\ pc[i] \in {"await", "done", "failed"} => calls[i] = 1
    /\ Len(events) = Cardinality(Admitted)
    /\ Len(invoked) = Cardinality(Admitted)
    /\ batch = "returned" =>
          (Len(events) = Len(articles) /\ Len(invoked) = Len(articles))

C17_Witness ==
    /\ batch = "returned"
    /\ Len(articles) = 2
    /\ rate_limit.amount = 1
    /\ outcome[1] = "deadline"
    /\ DeniedEver(2)
    /\ outcome[2] = "value"
    /\ Len(events) = 2

\* The length of the chain article.origin, article.origin.origin, ...
Chain(article) == Len(article) - 1

\* C18 as claimed: when the results of a call are the articles of the next,
\* the origin chain of a result does not grow with the number of calls: it
\* is never longer than after the first call on articles without an
\* origin, where it has one link.
C18_ChainBounded ==
    \A i \in Workers : outcome[i] = "value" => Chain(result[i]) <= 1

\* text has no newline and no two separators in a row.
Normalized(text) ==
    /\ \A k \in DOMAIN text : text[k] # "nl"
    /\ \A k \in DOMAIN text :
          (k > 1 /\ IsSep(text[k])) => ~IsSep(text[k - 1])

\* C19 as claimed: every article search returns, with detex or without,
\* has a normalized title and a normalized summary.
C19_ReturnedNormalized ==
    stage = "returned" =>
        \A k \in DOMAIN found :
            Normalized(found[k].title) /\ Normalized(found[k].summary)

====
